---- MODULE Spec2Model ----
(***************************************************************************)
(* Model of the work-hours-tracker dashboard (server component Dashboard)  *)
(* of the clock page timer (client component ClockPageClient) and of the   *)
(* server actions login, signup and signout.                               *)
(*                                                                         *)
(* Numbers are JavaScript numbers.  A value is a record [t, n, d]:         *)
(*   t = "number"     the finite number n/d, in lowest terms, d > 0        *)
(*   t = "NaN"        NaN                                                  *)
(*   t = "Infinity"   +Infinity (n = 1) or -Infinity (n = -1)              *)
(*   t = "null"       null                                                 *)
(*   t = "undefined"  undefined                                            *)
(* Finite numbers are exact rationals: binary rounding is not modelled.    *)
(***************************************************************************)
EXTENDS Integers, Sequences, FiniteSets, TLC

(***************************************************************************)
(* Bounds of the model.                                                    *)
(***************************************************************************)
\* total number of rows the five work_logs queries of one request return
MaxRowsTotal == 2
\* number of work_logs queries of one request that fail (their data is null)
MaxFailedQueries == 1
\* latest instant (in half seconds) the clock page is observed at
MaxNow == 9
\* renders with a changed hourlyRate are followed while setInterval has
\* returned fewer ids than this
MaxIntervals == 2
\* number of server actions (login, signup, signout) called one after another
MaxRuns == 2

(***************************************************************************)
(* JavaScript numbers.                                                     *)
(***************************************************************************)
Abs(x) == IF x < 0 THEN -x ELSE x

Sign(x) == IF x < 0 THEN -1 ELSE IF x > 0 THEN 1 ELSE 0

RECURSIVE GCD(_, _)
GCD(a, b) == IF b = 0 THEN a ELSE GCD(b, a % b)

\* the finite number n/d (d # 0) in lowest terms
Num(n, d) ==
    LET g == GCD(Abs(n), Abs(d))
        s == IF d < 0 THEN -1 ELSE 1
    IN  [t |-> "number", n |-> (s * n) \div g, d |-> (s * d) \div g]

Int2Num(n) == [t |-> "number", n |-> n, d |-> 1]

NaN == [t |-> "NaN", n |-> 0, d |-> 1]

Infinity(s) == [t |-> "Infinity", n |-> s, d |-> 1]

Null == [t |-> "null", n |-> 0, d |-> 1]

Undefined == [t |-> "undefined", n |-> 0, d |-> 1]

Zero == Int2Num(0)

IsNumber(v) == v.t = "number"

\* ToNumber: null is 0, undefined is NaN
ToNumber(v) ==
    CASE v.t = "null" -> Zero
      [] v.t = "undefined" -> NaN
      [] OTHER -> v

\* a + b on numbers
Add(a, b) ==
    LET x == ToNumber(a)
        y == ToNumber(b)
    IN  CASE x.t = "NaN" \/ y.t = "NaN" -> NaN
          [] x.t = "Infinity" /\ y.t = "Infinity" ->
                IF x.n = y.n THEN x ELSE NaN
          [] x.t = "Infinity" -> x
          [] y.t = "Infinity" -> y
          [] OTHER -> Num(x.n * y.d + y.n * x.d, x.d * y.d)

\* -a
Neg(a) ==
    LET x == ToNumber(a)
    IN  CASE x.t = "NaN" -> NaN
          [] x.t = "Infinity" -> Infinity(-x.n)
          [] OTHER -> Num(-x.n, x.d)

\* a - b
Sub(a, b) == Add(a, Neg(b))

\* a * b
Mul(a, b) ==
    LET x == ToNumber(a)
        y == ToNumber(b)
    IN  CASE x.t = "NaN" \/ y.t = "NaN" -> NaN
          [] x.t = "Infinity" \/ y.t = "Infinity" ->
                IF Sign(x.n) * Sign(y.n) = 0 THEN NaN
                ELSE Infinity(Sign(x.n) * Sign(y.n))
          [] OTHER -> Num(x.n * y.n, x.d * y.d)

\* a / b
Div(a, b) ==
    LET x == ToNumber(a)
        y == ToNumber(b)
    IN  CASE x.t = "NaN" \/ y.t = "NaN" -> NaN
          [] x.t = "Infinity" /\ y.t = "Infinity" -> NaN
          [] x.t = "Infinity" ->
                Infinity(IF y.n < 0 THEN -x.n ELSE x.n)
          [] y.t = "Infinity" -> Zero
          [] y.n = 0 -> IF x.n = 0 THEN NaN ELSE Infinity(Sign(x.n))
          [] OTHER -> Num(x.n * y.d, x.d * y.n)

\* a < b on finite numbers and infinities; every comparison with NaN is false
Less(a, b) ==
    LET x == ToNumber(a)
        y == ToNumber(b)
    IN  CASE x.t = "NaN" \/ y.t = "NaN" -> FALSE
          [] x.t = "Infinity" /\ y.t = "Infinity" -> x.n < y.n
          [] x.t = "Infinity" -> x.n < 0
          [] y.t = "Infinity" -> y.n > 0
          [] OTHER -> x.n * y.d < y.n * x.d

LessEq(a, b) ==
    LET x == ToNumber(a)
        y == ToNumber(b)
    IN  /\ x.t # "NaN"
        /\ y.t # "NaN"
        /\ (x = y \/ Less(x, y))

\* truthiness of a number-like value: 0, NaN, null and undefined are falsy
Truthy(v) ==
    CASE v.t = "number" -> v.n # 0
      [] v.t = "Infinity" -> TRUE
      [] OTHER -> FALSE

\* a || b
OrElse(a, b) == IF Truthy(a) THEN a ELSE b

\* Math.max(a, b): NaN when an argument is NaN
Max2(a, b) ==
    LET x == ToNumber(a)
        y == ToNumber(b)
    IN  IF x.t = "NaN" \/ y.t = "NaN" THEN NaN
        ELSE IF Less(x, y) THEN y ELSE x

\* Math.max(...values, last)
RECURSIVE MathMax(_, _)
MathMax(values, last) ==
    IF values = << >> THEN ToNumber(last)
    ELSE Max2(Head(values), MathMax(Tail(values), last))

\* floor of the finite number n/d scaled by k, rounded half up: the digits
\* x.toFixed(digits) prints, as an integer count of 10^-digits; "NaN" for NaN
RECURSIVE Pow10(_)
Pow10(k) == IF k = 0 THEN 1 ELSE 10 * Pow10(k - 1)

toFixed(v, digits) ==
    LET x == ToNumber(v)
    IN  IF x.t # "number" THEN [text |-> x.t, units |-> 0, digits |-> digits]
        ELSE LET a == Abs(x.n) * Pow10(digits)
                 r == (2 * a + x.d) \div (2 * x.d)
             IN  [text |-> "digits", units |-> Sign(x.n) * r,
                  digits |-> digits]

(***************************************************************************)
(* Rows of work_logs and user_profiles (Database types).                   *)
(*   date        "YYYY-MM-DD" as <<y, m, d>>, null as << >>                *)
(*   start_time, end_time   "HH:MM" as <<h, m>>, null as << >>             *)
(*   default_rate           "true", "false" or "null"                      *)
(*   custom_rate            a number or Null                               *)
(* A nullable array (the data of a query) is [isNull, rows].               *)
(***************************************************************************)
NoDate == << >>

NoTime == << >>

WorkLog(id, date, start_time, end_time, default_rate, custom_rate) ==
    [id |-> id, date |-> date, start_time |-> start_time,
     end_time |-> end_time, default_rate |-> default_rate,
     custom_rate |-> custom_rate]

\* the rows the store may hold for the signed-in user
WorkLogRows ==
    { WorkLog(1, <<2024, 3, 4>>, <<9, 0>>, <<17, 0>>, "true", Int2Num(15)),
      WorkLog(2, <<2024, 3, 4>>, NoTime, <<12, 0>>, "false", Int2Num(15)),
      WorkLog(3, <<2024, 3, 10>>, <<9, 0>>, <<11, 30>>, "false", Int2Num(15)),
      WorkLog(4, <<2024, 3, 6>>, <<8, 0>>, <<17, 0>>, "false", Null),
      WorkLog(5, <<2024, 2, 29>>, <<13, 0>>, NoTime, "null", Int2Num(15)) }

NullLogs == [isNull |-> TRUE, rows |-> << >>]

Logs(rows) == [isNull |-> FALSE, rows |-> rows]

\* logs || []
OrEmpty(logs) == IF logs.isNull THEN Logs(<< >>) ELSE logs

\* data of user_profiles ... .single(): null, or the selected row
NoProfile == [isNull |-> TRUE, default_wage |-> Null]

Profile(default_wage) == [isNull |-> FALSE, default_wage |-> default_wage]

ProfileResults == {NoProfile, Profile(Null), Profile(Int2Num(20))}

\* offsets of the runtime's local time from UTC, in hours
TZOffsets == {-5, 0, 9}

(***************************************************************************)
(* Dates.  Instants are hours since 1970-01-01T00:00Z.                     *)
(***************************************************************************)
\* days from 1970-01-01 to the civil date y-m-d
DaysFromCivil(y, m, d) ==
    LET yy == IF m <= 2 THEN y - 1 ELSE y
        era == yy \div 400
        yoe == yy - era * 400
        mp == (m + 9) % 12
        doy == (153 * mp + 2) \div 5 + d - 1
        doe == yoe * 365 + yoe \div 4 - yoe \div 100 + doy
    IN  era * 146097 + doe - 719468

\* new Date(date): a date-only ISO string is midnight UTC; new Date(null) is
\* the epoch
NewDate(date) ==
    IF date = NoDate THEN 0
    ELSE DaysFromCivil(date[1], date[2], date[3]) * 24

\* Date.prototype.getDay() in a runtime whose local time is UTC + tzOffset:
\* 0 is Sunday; 1970-01-01 was a Thursday
getDay(instant, tzOffset) == ((instant + tzOffset) \div 24 + 4) % 7

(***************************************************************************)
(* Aggregation (Dashboard).                                                *)
(***************************************************************************)
\* hours between two times of day; 0 when either is missing
calculateHoursWorked(start_time, end_time) ==
    IF start_time = NoTime \/ end_time = NoTime THEN Zero
    ELSE Num((end_time[1] * 60 + end_time[2])
             - (start_time[1] * 60 + start_time[2]), 60)

RECURSIVE HoursReduce(_, _)
HoursReduce(rows, total) ==
    IF rows = << >> THEN total
    ELSE HoursReduce(Tail(rows),
             Add(total, calculateHoursWorked(Head(rows).start_time,
                                             Head(rows).end_time)))

\* a reduce that returns the callback's value without the running total
calculateTotalHours_LastOnly(logs) ==
    IF logs.isNull \/ logs.rows = << >> THEN Zero
    ELSE calculateHoursWorked(logs.rows[Len(logs.rows)].start_time,
                              logs.rows[Len(logs.rows)].end_time)

calculateTotalHours(logs) ==
    OrElse(IF logs.isNull THEN Undefined ELSE HoursReduce(logs.rows, Zero),
           Zero)

\* log.default_rate ? default_hourly_rate?.default_wage : log.custom_rate
ResolveRate(log, default_hourly_rate) ==
    IF log.default_rate = "true"
    THEN IF default_hourly_rate.isNull THEN Undefined
         ELSE default_hourly_rate.default_wage
    ELSE log.custom_rate

RECURSIVE EarningsReduce(_, _, _)
EarningsReduce(rows, total, default_hourly_rate) ==
    IF rows = << >> THEN total
    ELSE EarningsReduce(Tail(rows),
             Add(total,
                 Mul(calculateHoursWorked(Head(rows).start_time,
                                          Head(rows).end_time),
                     ResolveRate(Head(rows), default_hourly_rate))),
             default_hourly_rate)

calculateTotalEarnings(logs, default_hourly_rate) ==
    OrElse(IF logs.isNull THEN Undefined
           ELSE EarningsReduce(logs.rows, Zero, default_hourly_rate),
           Zero)

\* new Set(logs?.map((log) => log.date)).size
DaysWorked(logs) ==
    IF logs.isNull THEN 0
    ELSE Cardinality({logs.rows[i].date : i \in DOMAIN logs.rows})

\* an average over the number of logs instead of the number of dates
AverageDailyHours_PerLog(logs) ==
    IF OrEmpty(logs).rows # << >>
    THEN Div(calculateTotalHours(OrEmpty(logs)),
             Int2Num(Len(OrEmpty(logs).rows)))
    ELSE Zero

\* days ? calculateTotalHours(logs || []) / days : 0
AverageDailyHours(logs) ==
    IF DaysWorked(logs) # 0
    THEN Div(calculateTotalHours(OrEmpty(logs)), Int2Num(DaysWorked(logs)))
    ELSE Zero

weekDays == <<"Mon", "Tue", "Wed", "Thu", "Fri", "Sat", "Sun">>

\* the weekday a log is filtered into: logDate.getDay() === (index + 1) % 7
OnWeekDay(log, index, tzOffset) ==
    getDay(NewDate(log.date), tzOffset) = (index + 1) % 7

\* rows.filter((log) => ...), in the order of rows
RECURSIVE FilterWeekDay(_, _, _)
FilterWeekDay(rows, index, tzOffset) ==
    IF rows = << >> THEN << >>
    ELSE IF OnWeekDay(Head(rows), index, tzOffset)
         THEN <<Head(rows)>> \o FilterWeekDay(Tail(rows), index, tzOffset)
         ELSE FilterWeekDay(Tail(rows), index, tzOffset)

\* currentWeekLogs?.filter(...) || []
DayLogs(currentWeekLogs, index, tzOffset) ==
    IF currentWeekLogs.isNull THEN Logs(<< >>)
    ELSE Logs(FilterWeekDay(currentWeekLogs.rows, index, tzOffset))

WeeklyData(currentWeekLogs, tzOffset) ==
    [i \in 1..Len(weekDays) |->
        [day |-> weekDays[i],
         hours |-> calculateTotalHours(
                       DayLogs(currentWeekLogs, i - 1, tzOffset))]]

\* the maximum without the floor of 8
MaxHours_NoFloor(weeklyData) ==
    MathMax(Tail([i \in DOMAIN weeklyData |-> weeklyData[i].hours]),
            weeklyData[1].hours)

\* Math.max(...weeklyData.map((d) => d.hours), 8)
MaxHours(weeklyData) ==
    MathMax([i \in DOMAIN weeklyData |-> weeklyData[i].hours], Int2Num(8))

\* a change that is never shown as a decrease
Delta_Clamped(current, previous) ==
    IF Less(current, previous) THEN Zero ELSE Sub(current, previous)

\* current - previous (hoursChange, earningsChange, averageHoursChange)
Delta(current, previous) == Sub(current, previous)

\* lines 346-381: everything the component derives from the fetched data
\* (profile; the logs of this week, last week, this month, last month; the
\* runtime's UTC offset)
Aggregate(profile, week, prevWeek, month, prevMonth, tzOffset) ==
    LET currentWeekHours == calculateTotalHours(OrEmpty(week))
        lastWeekHours == calculateTotalHours(OrEmpty(prevWeek))
        currentMonthEarnings ==
            calculateTotalEarnings(OrEmpty(month), profile)
        lastMonthEarnings ==
            calculateTotalEarnings(OrEmpty(prevMonth), profile)
        averageDailyHours == AverageDailyHours(month)
        lastMonthAverageDailyHours == AverageDailyHours(prevMonth)
        weeklyData == WeeklyData(week, tzOffset)
    IN  [currentWeekHours |-> currentWeekHours,
         lastWeekHours |-> lastWeekHours,
         hoursChange |-> Delta(currentWeekHours, lastWeekHours),
         currentMonthEarnings |-> currentMonthEarnings,
         lastMonthEarnings |-> lastMonthEarnings,
         earningsChange |-> Delta(currentMonthEarnings, lastMonthEarnings),
         daysWorkedThisMonth |-> DaysWorked(month),
         averageDailyHours |-> averageDailyHours,
         lastMonthDaysWorked |-> DaysWorked(prevMonth),
         lastMonthAverageDailyHours |-> lastMonthAverageDailyHours,
         averageHoursChange |->
             Delta(averageDailyHours, lastMonthAverageDailyHours),
         weeklyData |-> weeklyData,
         maxHours |-> MaxHours(weeklyData)]

(***************************************************************************)
(* Rendering (Dashboard's returned markup): the numbers it prints.  The     *)
(* currency symbol and the time format, which the second user_profiles     *)
(* query selects, are not modelled.                                        *)
(***************************************************************************)
\* one entry of the recent-logs list: "{hours.toFixed(1)} hours" and
\* "{(hours * rate).toFixed(2)}"
RecentEntry(log, default_hourly_rate) ==
    LET hours == calculateHoursWorked(log.start_time, log.end_time)
    IN  [id |-> log.id,
         hours |-> toFixed(hours, 1),
         earnings |->
             toFixed(Mul(hours, ResolveRate(log, default_hourly_rate)), 2)]

\* recentLogs?.map(...)
RecentList(logs, default_hourly_rate) ==
    IF logs.isNull THEN << >>
    ELSE [i \in DOMAIN logs.rows |->
             RecentEntry(logs.rows[i], default_hourly_rate)]

\* width: `${(hours / maxHours) * 100}%`
BarWidth(hours, maxHours) == Mul(Div(hours, maxHours), Int2Num(100))

Render(s, logs, default_hourly_rate) ==
    [currentWeekHours |-> toFixed(s.currentWeekHours, 1),
     hoursChange |-> toFixed(s.hoursChange, 1),
     currentMonthEarnings |-> toFixed(s.currentMonthEarnings, 2),
     earningsChange |-> toFixed(s.earningsChange, 2),
     daysWorkedThisMonth |-> s.daysWorkedThisMonth,
     averageDailyHours |-> toFixed(s.averageDailyHours, 1),
     averageHoursChange |-> toFixed(s.averageHoursChange, 1),
     recent |-> RecentList(logs, default_hourly_rate),
     bars |-> [i \in DOMAIN s.weeklyData |->
                  [day |-> s.weeklyData[i].day,
                   width |-> BarWidth(s.weeklyData[i].hours, s.maxHours),
                   hours |-> toFixed(s.weeklyData[i].hours, 1)]]]

(***************************************************************************)
(* Query results.                                                          *)
(***************************************************************************)
\* supabase.auth.getUser(): an error, no user, or a user
UserResults ==
    { [error |-> TRUE, hasUser |-> FALSE, id |-> "none",
       onboarding_completed |-> FALSE],
      [error |-> FALSE, hasUser |-> FALSE, id |-> "none",
       onboarding_completed |-> FALSE],
      [error |-> FALSE, hasUser |-> TRUE, id |-> "u1",
       onboarding_completed |-> FALSE],
      [error |-> FALSE, hasUser |-> TRUE, id |-> "u1",
       onboarding_completed |-> TRUE] }

NoUser == [error |-> FALSE, hasUser |-> FALSE, id |-> "none",
           onboarding_completed |-> FALSE]

\* lines 263-269: the target of the redirect() that ends the request after
\* the user lookup, "" when the request goes on; without the onboarding guard
RedirectFor_NoOnboarding(result) ==
    IF result.error \/ ~result.hasUser THEN "/login" ELSE ""

\* lines 263-269: the target of the redirect() that ends the request after
\* the user lookup, "" when the request goes on
RedirectFor(result) ==
    IF result.error \/ ~result.hasUser
    THEN "/login"
    ELSE IF ~result.onboarding_completed
         THEN "/account/onboarding"
         ELSE ""

\* supabase.from(table).select(...).eq("user_id", userId)
Query(table, userId) == [table |-> table, user_id |-> userId]

\* sort keys of ORDER BY: a null sorts as larger than every value
DateKey(date) ==
    IF date = NoDate THEN 1000000
    ELSE DaysFromCivil(date[1], date[2], date[3])

TimeKey(time) == IF time = NoTime THEN 1440 ELSE time[1] * 60 + time[2]

\* sequences of k distinct rows
RowSeqs(k) ==
    { q \in [1..k -> WorkLogRows] :
        \A i, j \in 1..k : i # j => q[i].id # q[j].id }

\* .gte("date", start).lte("date", end) for a week that starts on Monday:
\* the rows lie in one Monday-to-Sunday week
InOneWeek(q) ==
    \A i, j \in DOMAIN q :
        /\ q[i].date # NoDate
        /\ (DateKey(q[i].date) + 3) \div 7 = (DateKey(q[j].date) + 3) \div 7

\* .gte("date", start).lte("date", end) for a month
InOneMonth(q) ==
    \A i, j \in DOMAIN q :
        /\ q[i].date # NoDate
        /\ q[i].date[1] = q[j].date[1]
        /\ q[i].date[2] = q[j].date[2]

\* .order("date", { ascending: true })
DateAscending(q) ==
    \A i, j \in DOMAIN q : i < j => DateKey(q[i].date) <= DateKey(q[j].date)

\* .order("date", { ascending: false }).order("start_time", { ascending: false })
RecentOrder(q) ==
    \A i, j \in DOMAIN q :
        i < j =>
            \/ DateKey(q[i].date) > DateKey(q[j].date)
            \/ /\ DateKey(q[i].date) = DateKey(q[j].date)
               /\ TimeKey(q[i].start_time) >= TimeKey(q[j].start_time)

Min(a, b) == IF a < b THEN a ELSE b

\* data of a work_logs query that may return up to room rows: null (the
\* query failed, when it may) or the rows
WeekResults(room, mayFail) ==
    {l \in {NullLogs} : mayFail} \cup
    { Logs(q) : q \in { r \in UNION { RowSeqs(k) : k \in 0..room } :
                           InOneWeek(r) } }

CurrentWeekResults(room, mayFail) ==
    { l \in WeekResults(room, mayFail) : DateAscending(l.rows) }

MonthResults(room, mayFail) ==
    {l \in {NullLogs} : mayFail} \cup
    { Logs(q) : q \in { r \in UNION { RowSeqs(k) : k \in 0..room } :
                           InOneMonth(r) } }

\* .limit(5)
RecentResults(room, mayFail) ==
    {l \in {NullLogs} : mayFail} \cup
    { Logs(q) : q \in { r \in UNION { RowSeqs(k) : k \in 0..Min(room, 5) } :
                           RecentOrder(r) } }

(***************************************************************************)
(* Clock page (ClockPageClient).  Instants are milliseconds on the         *)
(* browser's clock; an ISO timestamp is <<seconds, milliseconds>>, null    *)
(* is << >>.                                                               *)
(***************************************************************************)
NoTimestamp == << >>

\* status.clockInTime as getCurrentClockStatus() may resolve it
ClockInTimes == {NoTimestamp, <<0, 500>>, <<2, 0>>}

\* the hourlyRate prop
HourlyRates == {20, 36}

\* parseISO(clockInTime)
parseISO(timestamp) == timestamp[1] * 1000 + timestamp[2]

\* a difference rounded to the nearest second instead of truncated
differenceInSeconds_Rounded(later, earlier) ==
    Sign(later - earlier) * ((Abs(later - earlier) + 500) \div 1000)

\* differenceInSeconds(later, earlier): full seconds, truncated towards zero
differenceInSeconds(later, earlier) ==
    Sign(later - earlier) * (Abs(later - earlier) \div 1000)

\* (seconds * hourlyRate) / 3600
EarningsFor(seconds, rate) == Div(Int2Num(seconds * rate), Int2Num(3600))

\* intervalId before line 44 has assigned it
NoInterval == [active |-> FALSE, id |-> 0, clockInDate |-> 0, hourlyRate |-> 0]

\* setInterval(callback, 1000), the callback closing over clockInDate and
\* hourlyRate: the timers of the browser, with one more
setInterval(scheduled, timer) == scheduled \cup {timer}

\* a clearInterval that leaves the timer running
clearInterval_Ignored(scheduled, id) == scheduled

\* clearInterval(intervalId): the timers of the browser, without that one
clearInterval(scheduled, id) == { t \in scheduled : t.id # id }

(***************************************************************************)
(* Server actions (actions/auth.ts).  A string that may be null is << >>   *)
(* or <<string>>; the error of an auth call is "" when there is none.      *)
(***************************************************************************)
\* formData.get("email"), formData.get("password")
Emails == {<< >>, <<"a@example.com">>, <<"b@example.com">>}

Passwords == {<< >>, <<"secret">>, <<"wrong">>}

FormDatas == [email : Emails, password : Passwords]

\* signout takes no form
NoFormData == [email |-> << >>, password |-> << >>]

\* the error of signInWithPassword, signUp and signOut
AuthErrors == {"", "invalid_credentials", "over_request_rate_limit"}

\* redirect(path): the call that ends the action
Redirect(path) == [call |-> "redirect", path |-> path, type |-> ""]

\* revalidatePath(path) and revalidatePath(path, type)
RevalidatePath(path, type) ==
    [call |-> "revalidatePath", path |-> path, type |-> type]

\* lines 24-25, 45-46, 54-55
Revalidated == <<RevalidatePath("/", ""), RevalidatePath("/", "layout")>>

\* the calls after the auth call, with a redirect() that returns
AfterAuth_FallsThrough(error, errorTarget, successTarget) ==
    (IF error # "" THEN <<Redirect(errorTarget)>> ELSE << >>)
    \o Revalidated \o <<Redirect(successTarget)>>

\* lines 20-26, 41-47: the calls after the auth call; redirect() does not
\* return
AfterAuth(error, errorTarget, successTarget) ==
    IF error # ""
    THEN <<Redirect(errorTarget)>>
    ELSE Revalidated \o <<Redirect(successTarget)>>

(***************************************************************************)
(* State.                                                                  *)
(***************************************************************************)
VARIABLES
    pc,                  \* the await the Dashboard request is at
    tz,                  \* UTC offset of the runtime rendering the request
    user,                \* data/error of supabase.auth.getUser()
    redirectTo,          \* target of redirect(), "" when none
    queries,             \* the table queries the request has issued, in order
    default_hourly_rate, \* data of the first user_profiles query
    currentWeekLogs,
    lastWeekLogs,
    currentMonthLogs,
    lastMonthLogs,
    recentLogs,
    summary,             \* << >>, or <<the values of lines 346-381>>
    view,                \* << >>, or <<the rendered values>>
    again,               \* << >>, or <<the values a second evaluation of
                         \*   lines 346-381 on the same data gave>>
    mounted,             \* "no", "rendered" (effects not yet run), "yes",
                         \*   "unmounted"
    now,                 \* the browser's clock
    hourlyRate,          \* the prop of the latest render
    clockInTime,
    elapsedTime,
    earnings,
    isLoading,
    statusPending,       \* getCurrentClockStatus() has not settled
    effectPending,       \* a dependency of the timer effect changed and the
                         \*   effect has not run again yet
    interval,            \* intervalId of the latest run of the timer effect
                         \*   and what its callback closed over
    timers,              \* the intervals the browser has running
    nextId,              \* the id setInterval returns next
    cleared,             \* ids the cleanup of the timer effect has run for
    ticked,              \* id of the interval whose callback ran last
    last,                \* the step taken last
    authAction,          \* the server action running or run last, "none"
    authPc,              \* the await the server action is at
    formData,
    authError,           \* error of the auth call
    authCalls,           \* revalidatePath and redirect calls of the action,
                         \*   in order
    authRuns             \* server actions called so far

dashboardVars ==
    <<pc, tz, user, redirectTo, queries, default_hourly_rate, currentWeekLogs,
      lastWeekLogs, currentMonthLogs, lastMonthLogs, recentLogs, summary,
      view, again>>

clockVars ==
    <<mounted, now, hourlyRate, clockInTime, elapsedTime, earnings, isLoading,
      statusPending, effectPending, interval, timers, nextId, cleared, ticked,
      last>>

authVars == <<authAction, authPc, formData, authError, authCalls, authRuns>>

vars == <<dashboardVars, clockVars, authVars>>

data == <<default_hourly_rate, currentWeekLogs, lastWeekLogs,
          currentMonthLogs, lastMonthLogs, recentLogs>>

\* rows the queries of this request have returned so far
RowsFetched ==
    Len(currentWeekLogs.rows) + Len(lastWeekLogs.rows)
    + Len(currentMonthLogs.rows) + Len(lastMonthLogs.rows)
    + Len(recentLogs.rows)

Room == MaxRowsTotal - RowsFetched

\* queries of this request that have failed so far
FailedQueries ==
    Cardinality({ i \in 1..5 :
                    <<currentWeekLogs, lastWeekLogs, currentMonthLogs,
                      lastMonthLogs, recentLogs>>[i].isNull })

MayFail == FailedQueries < MaxFailedQueries

Init ==
    /\ pc = "getUser"
    /\ tz \in TZOffsets
    /\ user = NoUser
    /\ redirectTo = ""
    /\ queries = << >>
    /\ default_hourly_rate = NoProfile
    /\ currentWeekLogs = Logs(<< >>)
    /\ lastWeekLogs = Logs(<< >>)
    /\ currentMonthLogs = Logs(<< >>)
    /\ lastMonthLogs = Logs(<< >>)
    /\ recentLogs = Logs(<< >>)
    /\ summary = << >>
    /\ view = << >>
    /\ again = << >>
    /\ mounted = "no"
    /\ now = 0
    /\ hourlyRate = 20
    /\ clockInTime = NoTimestamp
    /\ elapsedTime = 0
    /\ earnings = Zero
    /\ isLoading = TRUE
    /\ statusPending = FALSE
    /\ effectPending = FALSE
    /\ interval = NoInterval
    /\ timers = {}
    /\ nextId = 1
    /\ cleared = {}
    /\ ticked = 0
    /\ last = "none"
    /\ authAction = "none"
    /\ authPc = "idle"
    /\ formData = NoFormData
    /\ authError = ""
    /\ authCalls = << >>
    /\ authRuns = 0

(***************************************************************************)
(* Dashboard: one action per await.                                        *)
(***************************************************************************)
\* lines 260-269
GetUser ==
    /\ pc = "getUser"
    /\ \E result \in UserResults :
        /\ user' = result
        /\ redirectTo' = RedirectFor(result)
        /\ pc' = IF RedirectFor(result) # "" THEN "redirected"
                                            ELSE "default_hourly_rate"
    /\ UNCHANGED <<tz, queries, data, summary, view, again>>
    /\ UNCHANGED <<clockVars, authVars>>

\* lines 271-275
FetchDefaultHourlyRate ==
    /\ pc = "default_hourly_rate"
    /\ default_hourly_rate' \in ProfileResults
    /\ queries' = Append(queries, Query("user_profiles", user.id))
    /\ pc' = "currentWeekLogs"
    /\ UNCHANGED <<tz, user, redirectTo, currentWeekLogs, lastWeekLogs,
                   currentMonthLogs, lastMonthLogs, recentLogs, summary,
                   view, again>>
    /\ UNCHANGED <<clockVars, authVars>>

\* lines 277-285
FetchCurrentWeekLogs ==
    /\ pc = "currentWeekLogs"
    /\ currentWeekLogs' \in CurrentWeekResults(Room, MayFail)
    /\ queries' = Append(queries, Query("work_logs", user.id))
    /\ pc' = "lastWeekLogs"
    /\ UNCHANGED <<tz, user, redirectTo, default_hourly_rate, lastWeekLogs,
                   currentMonthLogs, lastMonthLogs, recentLogs, summary,
                   view, again>>
    /\ UNCHANGED <<clockVars, authVars>>

\* lines 287-296
FetchLastWeekLogs ==
    /\ pc = "lastWeekLogs"
    /\ lastWeekLogs' \in WeekResults(Room, MayFail)
    /\ queries' = Append(queries, Query("work_logs", user.id))
    /\ pc' = "currentMonthLogs"
    /\ UNCHANGED <<tz, user, redirectTo, default_hourly_rate, currentWeekLogs,
                   currentMonthLogs, lastMonthLogs, recentLogs, summary,
                   view, again>>
    /\ UNCHANGED <<clockVars, authVars>>

\* lines 298-305
FetchCurrentMonthLogs ==
    /\ pc = "currentMonthLogs"
    /\ currentMonthLogs' \in MonthResults(Room, MayFail)
    /\ queries' = Append(queries, Query("work_logs", user.id))
    /\ pc' = "lastMonthLogs"
    /\ UNCHANGED <<tz, user, redirectTo, default_hourly_rate, currentWeekLogs,
                   lastWeekLogs, lastMonthLogs, recentLogs, summary,
                   view, again>>
    /\ UNCHANGED <<clockVars, authVars>>

\* lines 307-314
FetchLastMonthLogs ==
    /\ pc = "lastMonthLogs"
    /\ lastMonthLogs' \in MonthResults(Room, MayFail)
    /\ queries' = Append(queries, Query("work_logs", user.id))
    /\ pc' = "recentLogs"
    /\ UNCHANGED <<tz, user, redirectTo, default_hourly_rate, currentWeekLogs,
                   lastWeekLogs, currentMonthLogs, recentLogs, summary,
                   view, again>>
    /\ UNCHANGED <<clockVars, authVars>>

\* lines 316-381: the last work_logs query, then the aggregation, which runs
\* without a further await
FetchRecentLogs ==
    /\ pc = "recentLogs"
    /\ recentLogs' \in RecentResults(Room, MayFail)
    /\ summary' = <<Aggregate(default_hourly_rate, currentWeekLogs,
                              lastWeekLogs, currentMonthLogs, lastMonthLogs,
                              tz)>>
    /\ queries' = Append(queries, Query("work_logs", user.id))
    /\ pc' = "userProfile"
    /\ UNCHANGED <<tz, user, redirectTo, default_hourly_rate, currentWeekLogs,
                   lastWeekLogs, currentMonthLogs, lastMonthLogs,
                   view, again>>
    /\ UNCHANGED <<clockVars, authVars>>

\* lines 383-556: the second profile query, then the markup
FetchUserProfile ==
    /\ pc = "userProfile"
    /\ view' = <<Render(summary[1], recentLogs, default_hourly_rate)>>
    /\ queries' = Append(queries, Query("user_profiles", user.id))
    /\ pc' = "rendered"
    /\ UNCHANGED <<tz, user, redirectTo, data, summary, again>>
    /\ UNCHANGED <<clockVars, authVars>>

\* the same data evaluated once more, by a runtime in any timezone
Reevaluate ==
    /\ pc = "rendered"
    /\ \E tzOffset \in TZOffsets :
        /\ tz' = tzOffset
        /\ again' = <<Aggregate(default_hourly_rate, currentWeekLogs,
                                lastWeekLogs, currentMonthLogs, lastMonthLogs,
                                tzOffset)>>
    /\ pc' = "reevaluated"
    /\ UNCHANGED <<user, redirectTo, queries, data, summary, view>>
    /\ UNCHANGED <<clockVars, authVars>>



Next ==
    \/ GetUser
    \/ FetchDefaultHourlyRate
    \/ FetchCurrentWeekLogs
    \/ FetchLastWeekLogs
    \/ FetchCurrentMonthLogs
    \/ FetchLastMonthLogs
    \/ FetchRecentLogs
    \/ FetchUserProfile

Spec == Init /\ [][Next]_vars

\* a request, and its data evaluated a second time
TwiceNext ==
    \/ GetUser
    \/ FetchDefaultHourlyRate
    \/ FetchCurrentWeekLogs
    \/ FetchLastWeekLogs
    \/ FetchCurrentMonthLogs
    \/ FetchLastMonthLogs
    \/ FetchRecentLogs
    \/ FetchUserProfile
    \/ Reevaluate

TwiceSpec == Init /\ [][TwiceNext]_vars

(***************************************************************************)
(* ClockPageClient: one action per render, effect, callback and promise.   *)
(***************************************************************************)
\* lines 14-21: the first render, with the initial state
FirstRender ==
    /\ mounted = "no"
    /\ mounted' = "rendered"
    /\ hourlyRate' \in HourlyRates
    /\ clockInTime' = NoTimestamp
    /\ elapsedTime' = 0
    /\ earnings' = Zero
    /\ isLoading' = TRUE
    /\ last' = "render"
    /\ UNCHANGED <<now, statusPending, effectPending, interval, timers, nextId,
                   cleared, ticked>>
    /\ UNCHANGED <<dashboardVars, authVars>>

\* lines 53-57: the cleanup of the latest run of the timer effect: the
\* timers it leaves running
Cleanup ==
    IF interval.active THEN clearInterval(timers, interval.id) ELSE timers

\* lines 33-52: the body of the timer effect, for the values of the latest
\* render; the cleanup of the previous run comes first (lines 53-57)
TimerEffect ==
    /\ cleared' = IF interval.active THEN cleared \cup {interval.id}
                                      ELSE cleared
    /\ IF clockInTime # NoTimestamp
       THEN /\ elapsedTime' = differenceInSeconds(now, parseISO(clockInTime))
            /\ interval' = [active |-> TRUE,
                            id |-> nextId,
                            clockInDate |-> parseISO(clockInTime),
                            hourlyRate |-> hourlyRate]
            /\ timers' = setInterval(Cleanup,
                                     [id |-> nextId,
                                      clockInDate |-> parseISO(clockInTime),
                                      hourlyRate |-> hourlyRate,
                                      lastFired |-> now])
            /\ nextId' = nextId + 1
            /\ UNCHANGED earnings
       ELSE /\ elapsedTime' = 0
            /\ earnings' = Zero
            /\ interval' = NoInterval
            /\ timers' = Cleanup
            /\ UNCHANGED nextId

\* lines 23-58: the effects of the mount: the status request starts and the
\* timer effect runs
MountEffects ==
    /\ mounted = "rendered"
    /\ mounted' = "yes"
    /\ statusPending' = TRUE
    /\ TimerEffect
    /\ effectPending' = FALSE
    /\ last' = "effect"
    /\ UNCHANGED <<now, hourlyRate, clockInTime, isLoading, ticked>>
    /\ UNCHANGED <<dashboardVars, authVars>>

\* lines 25-30: the status request resolved
StatusResolved ==
    /\ statusPending
    /\ statusPending' = FALSE
    /\ \E status \in ClockInTimes :
        IF mounted = "yes"
        THEN /\ clockInTime' = status
             /\ isLoading' = FALSE
             /\ effectPending' = (effectPending \/ status # clockInTime)
        ELSE UNCHANGED <<clockInTime, isLoading, effectPending>>
    /\ last' = "status"
    /\ UNCHANGED <<mounted, now, hourlyRate, elapsedTime, earnings, interval,
                   timers, nextId, cleared, ticked>>
    /\ UNCHANGED <<dashboardVars, authVars>>

\* lines 28-30: the status request rejected: only finally runs
StatusRejected ==
    /\ statusPending
    /\ statusPending' = FALSE
    /\ isLoading' = IF mounted = "yes" THEN FALSE ELSE isLoading
    /\ last' = "status"
    /\ UNCHANGED <<mounted, now, hourlyRate, clockInTime, elapsedTime,
                   earnings, effectPending, interval, timers, nextId, cleared,
                   ticked>>
    /\ UNCHANGED <<dashboardVars, authVars>>

\* the parent renders the component with another hourlyRate
RateChanged ==
    /\ mounted = "yes"
    /\ nextId <= MaxIntervals
    /\ \E rate \in HourlyRates \ {hourlyRate} : hourlyRate' = rate
    /\ effectPending' = TRUE
    /\ last' = "render"
    /\ UNCHANGED <<mounted, now, clockInTime, elapsedTime, earnings,
                   isLoading, statusPending, interval, timers, nextId, cleared,
                   ticked>>
    /\ UNCHANGED <<dashboardVars, authVars>>

\* lines 33-58: a dependency changed: the cleanup of the previous run, then
\* the effect again
RerunTimerEffect ==
    /\ mounted = "yes"
    /\ effectPending
    /\ TimerEffect
    /\ effectPending' = FALSE
    /\ last' = "effect"
    /\ UNCHANGED <<mounted, now, hourlyRate, clockInTime, isLoading,
                   statusPending, ticked>>
    /\ UNCHANGED <<dashboardVars, authVars>>

\* lines 42-47: the callback of a running interval, a second or more after
\* the timer was set or last fired; the state of a component that is no
\* longer mounted is not updated
Tick ==
    /\ \E t \in timers :
        /\ now >= t.lastFired + 1000
        /\ LET seconds == differenceInSeconds(now, t.clockInDate)
           IN  IF mounted = "yes"
               THEN /\ elapsedTime' = seconds
                    /\ earnings' = EarningsFor(seconds, t.hourlyRate)
               ELSE UNCHANGED <<elapsedTime, earnings>>
        /\ timers' = (timers \ {t}) \cup {[t EXCEPT !.lastFired = now]}
        /\ ticked' = t.id
    /\ last' = "tick"
    /\ UNCHANGED <<mounted, now, hourlyRate, clockInTime, isLoading,
                   statusPending, effectPending, interval, nextId, cleared>>
    /\ UNCHANGED <<dashboardVars, authVars>>

\* half a second passes
Advance ==
    /\ mounted # "no"
    /\ now < MaxNow * 500
    /\ now' = now + 500
    /\ last' = "advance"
    /\ UNCHANGED <<mounted, hourlyRate, clockInTime, elapsedTime, earnings,
                   isLoading, statusPending, effectPending, interval, timers,
                   nextId, cleared, ticked>>
    /\ UNCHANGED <<dashboardVars, authVars>>

\* lines 53-57: the component unmounts: the cleanup of the timer effect
Unmount ==
    /\ mounted = "yes"
    /\ mounted' = "unmounted"
    /\ timers' = Cleanup
    /\ cleared' = IF interval.active THEN cleared \cup {interval.id}
                                      ELSE cleared
    /\ interval' = NoInterval
    /\ effectPending' = FALSE
    /\ last' = "unmount"
    /\ UNCHANGED <<now, hourlyRate, clockInTime, elapsedTime, earnings,
                   isLoading, statusPending, nextId, ticked>>
    /\ UNCHANGED <<dashboardVars, authVars>>

ClockNext ==
    \/ FirstRender
    \/ MountEffects
    \/ StatusResolved
    \/ StatusRejected
    \/ RateChanged
    \/ RerunTimerEffect
    \/ Tick
    \/ Advance
    \/ Unmount

ClockSpec == Init /\ [][ClockNext]_vars

(***************************************************************************)
(* Server actions: one action per call and per await.                      *)
(***************************************************************************)
\* a server action is called: no other is running
Call(action, form) ==
    /\ authPc \in {"idle", "done"}
    /\ authRuns' = authRuns + 1
    /\ authAction' = action
    /\ formData' = form
    /\ authPc' = "createClient"
    /\ authError' = ""
    /\ authCalls' = << >>
    /\ UNCHANGED <<dashboardVars, clockVars>>

\* line 9, 30, 51: createClient() resolved; the auth call is issued
ClientCreated(action) ==
    /\ authPc = "createClient"
    /\ authPc' = "auth"
    /\ UNCHANGED <<authAction, formData, authError, authCalls, authRuns>>
    /\ UNCHANGED <<dashboardVars, clockVars>>

\* line 8
login ==
    /\ authRuns < MaxRuns
    /\ \E form \in FormDatas : Call("login", form)

\* lines 9-18
loginSignIn ==
    /\ authAction = "login"
    /\ ClientCreated("login")

\* lines 18-26: signInWithPassword resolved
loginSettled ==
    /\ authAction = "login"
    /\ authPc = "auth"
    /\ \E error \in AuthErrors :
        /\ authError' = error
        /\ authCalls' = AfterAuth(error, "/login?error=loginError",
                                  "/time-tracker")
    /\ authPc' = "done"
    /\ UNCHANGED <<authAction, formData, authRuns>>
    /\ UNCHANGED <<dashboardVars, clockVars>>

\* line 29
signup ==
    /\ authRuns < MaxRuns
    /\ \E form \in FormDatas : Call("signup", form)

\* lines 30-39
signupSignUp ==
    /\ authAction = "signup"
    /\ ClientCreated("signup")

\* lines 39-47: signUp resolved
signupSettled ==
    /\ authAction = "signup"
    /\ authPc = "auth"
    /\ \E error \in AuthErrors :
        /\ authError' = error
        /\ authCalls' = AfterAuth(error, "/signup?error=signupError", "/login")
    /\ authPc' = "done"
    /\ UNCHANGED <<authAction, formData, authRuns>>
    /\ UNCHANGED <<dashboardVars, clockVars>>

\* line 50
signout ==
    /\ authRuns < MaxRuns
    /\ Call("signout", NoFormData)

\* lines 51-52
signoutSignOut ==
    /\ authAction = "signout"
    /\ ClientCreated("signout")

\* lines 52-56: signOut resolved; its result is not looked at
signoutSettled ==
    /\ authAction = "signout"
    /\ authPc = "auth"
    /\ \E error \in AuthErrors :
        /\ authError' = error
        /\ authCalls' = Revalidated \o <<Redirect("/login")>>
    /\ authPc' = "done"
    /\ UNCHANGED <<authAction, formData, authRuns>>
    /\ UNCHANGED <<dashboardVars, clockVars>>

AuthNext ==
    \/ login
    \/ loginSignIn
    \/ loginSettled
    \/ signup
    \/ signupSignUp
    \/ signupSettled
    \/ signout
    \/ signoutSignOut
    \/ signoutSettled

AuthSpec == Init /\ [][AuthNext]_vars

(***************************************************************************)
(* What the specification says of the dashboard, stated without the code's *)
(* arithmetic: minutes and rates are integers.                             *)
(***************************************************************************)
Aggregated == summary # << >>

Rendered == view # << >>

\* minutes a log is worth: 0 when a timestamp is absent
LogMinutes(log) ==
    IF log.start_time = NoTime \/ log.end_time = NoTime THEN 0
    ELSE (log.end_time[1] * 60 + log.end_time[2])
         - (log.start_time[1] * 60 + log.start_time[2])

\* the rate the specification resolves for a log, 0 when it is absent
RatePresent(log, profile) ==
    IF log.default_rate = "true"
    THEN ~profile.isNull /\ IsNumber(profile.default_wage)
    ELSE IsNumber(log.custom_rate)

SpecRate(log, profile) ==
    IF ~RatePresent(log, profile) THEN 0
    ELSE IF log.default_rate = "true" THEN profile.default_wage.n
    ELSE log.custom_rate.n

RECURSIVE SumMinutes(_, _)
SumMinutes(rows, k) ==
    IF k = 0 THEN 0 ELSE LogMinutes(rows[k]) + SumMinutes(rows, k - 1)

SpecTotalHours(logs) ==
    Num(SumMinutes(OrEmpty(logs).rows, Len(OrEmpty(logs).rows)), 60)

RECURSIVE SumEarned(_, _, _)
SumEarned(rows, k, profile) ==
    IF k = 0 THEN 0
    ELSE LogMinutes(rows[k]) * SpecRate(rows[k], profile)
         + SumEarned(rows, k - 1, profile)

SpecTotalEarnings(logs, profile) ==
    Num(SumEarned(OrEmpty(logs).rows, Len(OrEmpty(logs).rows), profile), 60)

\* the weekday of a calendar date in the date's own reference, 0 = Sunday
CalendarWeekday(date) == (DaysFromCivil(date[1], date[2], date[3]) + 4) % 7

RECURSIVE SumMinutesOn(_, _, _)
SumMinutesOn(rows, k, weekday) ==
    IF k = 0 THEN 0
    ELSE (IF CalendarWeekday(rows[k].date) = weekday
          THEN LogMinutes(rows[k]) ELSE 0)
         + SumMinutesOn(rows, k - 1, weekday)

\* distinct dates, counted as the rows whose date no earlier row has
DistinctDates(logs) ==
    Cardinality({ i \in DOMAIN OrEmpty(logs).rows :
                    \A j \in 1..(i - 1) :
                        OrEmpty(logs).rows[j].date
                            # OrEmpty(logs).rows[i].date })

(***************************************************************************)
(* C1.  calculateTotalHours(logs) is the sum of the logs' hours, a log     *)
(* without start_time or end_time counting 0; it is a number, and 0 for    *)
(* the empty or null input.                                                *)
(***************************************************************************)
C1_TotalHoursIsSum ==
    Aggregated =>
        /\ summary[1].currentWeekHours = SpecTotalHours(currentWeekLogs)
        /\ summary[1].lastWeekHours = SpecTotalHours(lastWeekLogs)
        /\ (OrEmpty(currentWeekLogs).rows = << >>
                => summary[1].currentWeekHours = Zero)

\* both logs of the week returned, one of them without a start time
C1_Witness ==
    /\ Aggregated
    /\ Len(currentWeekLogs.rows) = 2
    /\ \E i \in 1..2 : currentWeekLogs.rows[i].start_time = NoTime
    /\ summary[1].currentWeekHours = Int2Num(8)

(***************************************************************************)
(* C2.  calculateTotalEarnings(logs) is the sum over the logs of hours     *)
(* times the resolved rate: default_wage when default_rate is true,        *)
(* custom_rate otherwise; 0 for the empty input.                           *)
(***************************************************************************)
C2_TotalEarningsIsSum ==
    Aggregated =>
        /\ summary[1].currentMonthEarnings
               = SpecTotalEarnings(currentMonthLogs, default_hourly_rate)
        /\ summary[1].lastMonthEarnings
               = SpecTotalEarnings(lastMonthLogs, default_hourly_rate)

\* the earnings of the logs whose rate is present, in sixtieths
RECURSIVE SumEarnedPresent(_, _, _)
SumEarnedPresent(rows, k, profile) ==
    IF k = 0 THEN 0
    ELSE (IF RatePresent(rows[k], profile)
          THEN LogMinutes(rows[k]) * SpecRate(rows[k], profile) ELSE 0)
         + SumEarnedPresent(rows, k - 1, profile)

(***************************************************************************)
(* C3.  A log whose resolved rate is absent contributes 0 to the earnings  *)
(* total while every other log contributes hours times rate, and the       *)
(* earnings shown for it in the recent-logs list is 0, never NaN.          *)
(***************************************************************************)
C3_MissingRateIsZero ==
    /\ Aggregated =>
        \A logs \in {currentMonthLogs, lastMonthLogs} :
            (\E i \in DOMAIN logs.rows :
                ~RatePresent(logs.rows[i], default_hourly_rate))
            => calculateTotalEarnings(OrEmpty(logs), default_hourly_rate)
                   = Num(SumEarnedPresent(logs.rows, Len(logs.rows),
                                          default_hourly_rate), 60)
    /\ Rendered =>
        \A i \in DOMAIN recentLogs.rows :
            /\ view[1].recent[i].earnings.text = "digits"
            /\ ~RatePresent(recentLogs.rows[i], default_hourly_rate)
                   => view[1].recent[i].earnings.units = 0

(***************************************************************************)
(* C4.  A log is counted in the weekday bucket of its stored calendar      *)
(* date and in no other, in every runtime timezone.                        *)
(***************************************************************************)
C4_BucketIsCalendarWeekday ==
    Aggregated =>
        \A k \in DOMAIN currentWeekLogs.rows :
            \A index \in 0..6 :
                OnWeekDay(currentWeekLogs.rows[k], index, tz)
                    <=> CalendarWeekday(currentWeekLogs.rows[k].date)
                            = (index + 1) % 7

(***************************************************************************)
(* C5.  weeklyData has exactly the 7 entries Mon..Sun in that order, and   *)
(* entry i holds the total hours of exactly the logs whose date falls on   *)
(* that weekday, 0 when none does.                                         *)
(***************************************************************************)
C5_SevenBucketsByWeekday ==
    Aggregated =>
        /\ Len(summary[1].weeklyData) = 7
        /\ [i \in 1..7 |-> summary[1].weeklyData[i].day]
               = <<"Mon", "Tue", "Wed", "Thu", "Fri", "Sat", "Sun">>
        /\ \A i \in 1..7 :
               summary[1].weeklyData[i].hours
                   = Num(SumMinutesOn(OrEmpty(currentWeekLogs).rows,
                                      Len(OrEmpty(currentWeekLogs).rows),
                                      i % 7), 60)

(***************************************************************************)
(* C6.  The days-worked count is the number of distinct dates and at most  *)
(* the number of logs; the average daily hours is 0 when that count is 0   *)
(* and the total hours divided by the count otherwise.                     *)
(***************************************************************************)
C6_AverageDailyHours ==
    Aggregated =>
        /\ summary[1].daysWorkedThisMonth = DistinctDates(currentMonthLogs)
        /\ summary[1].lastMonthDaysWorked = DistinctDates(lastMonthLogs)
        /\ summary[1].daysWorkedThisMonth <= Len(currentMonthLogs.rows)
        /\ summary[1].lastMonthDaysWorked <= Len(lastMonthLogs.rows)
        /\ IsNumber(summary[1].averageDailyHours)
        /\ IsNumber(summary[1].lastMonthAverageDailyHours)
        /\ IF DistinctDates(currentMonthLogs) = 0
           THEN summary[1].averageDailyHours = Zero
           ELSE Mul(summary[1].averageDailyHours,
                    Int2Num(DistinctDates(currentMonthLogs)))
                    = SpecTotalHours(currentMonthLogs)
        /\ IF DistinctDates(lastMonthLogs) = 0
           THEN summary[1].lastMonthAverageDailyHours = Zero
           ELSE Mul(summary[1].lastMonthAverageDailyHours,
                    Int2Num(DistinctDates(lastMonthLogs)))
                    = SpecTotalHours(lastMonthLogs)

\* two logs of the month on one date, worth 8 hours together
C6_Witness ==
    /\ Aggregated
    /\ Len(currentMonthLogs.rows) = 2
    /\ summary[1].daysWorkedThisMonth = 1
    /\ summary[1].averageDailyHours = Int2Num(8)

(***************************************************************************)
(* C7.  Each change is exactly current minus previous, negative whenever   *)
(* the previous period's value is larger.                                  *)
(***************************************************************************)
IsDifference(change, current, previous) ==
    /\ IsNumber(change)
    /\ Add(change, previous) = current
    /\ Less(current, previous) => change.n < 0

C7_DeltaIsDifference ==
    Aggregated =>
        /\ IsDifference(summary[1].hoursChange, summary[1].currentWeekHours,
                        summary[1].lastWeekHours)
        /\ IsDifference(summary[1].earningsChange,
                        summary[1].currentMonthEarnings,
                        summary[1].lastMonthEarnings)
        /\ IsDifference(summary[1].averageHoursChange,
                        summary[1].averageDailyHours,
                        summary[1].lastMonthAverageDailyHours)

\* fewer hours this week than last week
C7_Witness ==
    /\ Aggregated
    /\ Less(summary[1].currentWeekHours, summary[1].lastWeekHours)
    /\ summary[1].hoursChange.n < 0

(***************************************************************************)
(* C8.  Two evaluations on identical profile and log sets give identical   *)
(* totals, changes, counts, averages and weekday buckets, whatever the     *)
(* environment of the runtime.                                             *)
(***************************************************************************)
C8_SameDataSameSummary ==
    again # << >> => again[1] = summary[1]

(***************************************************************************)
(* C9.  maxHours is the larger of 8 and the largest bucket, so at least 8  *)
(* and at least every bucket; a bar of non-negative hours has a width      *)
(* between 0 and 100 percent, never divided by zero.                       *)
(***************************************************************************)
C9_MaxHoursFloor ==
    /\ Aggregated =>
        /\ IsNumber(summary[1].maxHours)
        /\ LessEq(Int2Num(8), summary[1].maxHours)
        /\ \A i \in 1..7 :
               LessEq(summary[1].weeklyData[i].hours, summary[1].maxHours)
        /\ \/ summary[1].maxHours = Int2Num(8)
           \/ \E i \in 1..7 :
                  summary[1].maxHours = summary[1].weeklyData[i].hours
    /\ Rendered =>
        \A i \in 1..7 :
            LessEq(Zero, summary[1].weeklyData[i].hours)
                => /\ IsNumber(view[1].bars[i].width)
                   /\ LessEq(Zero, view[1].bars[i].width)
                   /\ LessEq(view[1].bars[i].width, Int2Num(100))

\* a day of more than 8 hours fills its bar
C9_Witness ==
    /\ Rendered
    /\ Less(Int2Num(8), summary[1].maxHours)
    /\ \E i \in 1..7 : view[1].bars[i].width = Int2Num(100)

(***************************************************************************)
(* C10.  While a clock-in timestamp is stored, a tick sets elapsedTime to  *)
(* the whole seconds from that timestamp to the current time and earnings  *)
(* to elapsedTime x hourlyRate / 3600, whatever the time since the last    *)
(* tick; while the stored timestamp is null, both are 0.  The hourlyRate   *)
(* of a tick is the one its effect closed over: the prop of the latest     *)
(* render once the effect has run for that render.                         *)
(***************************************************************************)
\* k is the number of whole seconds in a span of ms milliseconds
WholeSeconds(k, ms) ==
    IF ms >= 0 THEN k * 1000 <= ms /\ ms < (k + 1) * 1000
    ELSE (-k) * 1000 <= -ms /\ -ms < (1 - k) * 1000

C10_TickRecomputes ==
    /\ last = "tick" =>
        /\ clockInTime # NoTimestamp
        /\ WholeSeconds(elapsedTime, now - parseISO(clockInTime))
        /\ IsNumber(earnings)
        /\ earnings.n * 3600 = elapsedTime * interval.hourlyRate * earnings.d
        /\ ~effectPending => interval.hourlyRate = hourlyRate
    /\ (mounted = "yes" /\ ~effectPending /\ clockInTime = NoTimestamp) =>
        /\ elapsedTime = 0
        /\ earnings = Zero

\* a tick that comes two and a half seconds after the clock-in
C10_Witness ==
    /\ last = "tick"
    /\ now - parseISO(clockInTime) = 2500
    /\ elapsedTime = 2
    /\ earnings # Zero

\* C11: across mounts, status loads, changes of clockInTime and hourlyRate and
\* the unmount, at most one interval is running at any time, an interval is
\* running only while the component is mounted with a non-null clockInTime,
\* and once the cleanup of the timer effect has run for an interval, that
\* interval is no longer running and no callback of it updates elapsedTime
\* or earnings.
C11_OneCancellableInterval ==
    /\ Cardinality(timers) <= 1
    /\ timers # {} => (mounted = "yes" /\ clockInTime # NoTimestamp)
    /\ \A t \in timers : t.id \notin cleared
    /\ (last = "tick" /\ mounted = "yes") => ticked \notin cleared

\* the callback of a second interval has run after the first was cancelled
C11_Witness ==
    /\ last = "tick"
    /\ cleared # {}
    /\ ticked \notin cleared
    /\ timers # {}

\* C12: in every state in which the timer effect has run for the values of
\* the latest render, before a tick as well as after it, earnings equals
\* elapsedTime x the current hourlyRate / 3600.
C12_EarningsMatchElapsed ==
    (mounted = "yes" /\ ~effectPending) =>
        /\ IsNumber(earnings)
        /\ earnings.n * 3600 = elapsedTime * hourlyRate * earnings.d

\* C13: the dashboard has issued a user_profiles or work_logs query only if
\* the user lookup gave a user, without an error, whose onboarding_completed
\* is truthy; after a lookup error or without a user the request has ended
\* with a redirect to /login, for a user who is not onboarded with a redirect
\* to /account/onboarding, in both cases with no query issued; and every
\* query issued is filtered by the id of the user the lookup gave.
C13_QueriesOnlyForOnboardedUser ==
    /\ queries # << >> =>
        (~user.error /\ user.hasUser /\ user.onboarding_completed)
    /\ (pc # "getUser" /\ (user.error \/ ~user.hasUser)) =>
        (pc = "redirected" /\ redirectTo = "/login" /\ queries = << >>)
    /\ (pc # "getUser" /\ ~user.error /\ user.hasUser
           /\ ~user.onboarding_completed) =>
        /\ pc = "redirected"
        /\ redirectTo = "/account/onboarding"
        /\ queries = << >>
    /\ \A i \in 1..Len(queries) :
        /\ queries[i].table \in {"user_profiles", "work_logs"}
        /\ queries[i].user_id = user.id
    /\ redirectTo # "" => pc = "redirected"

\* an onboarded user's request has issued its seven queries
C13_Witness ==
    /\ pc = "rendered"
    /\ user.onboarding_completed
    /\ Len(queries) = 7
    /\ redirectTo = ""

(***************************************************************************)
(* What the specification says of the server actions.                      *)
(***************************************************************************)
\* the redirect() calls among the calls of the action
Redirects == SelectSeq(authCalls, LAMBDA c : c.call = "redirect")

\* the redirect target the claim gives for an action and its auth outcome
TargetFor(action, failed) ==
    CASE action = "login" ->
           IF failed THEN "/login?error=loginError" ELSE "/time-tracker"
      [] action = "signup" ->
           IF failed THEN "/signup?error=signupError" ELSE "/login"
      [] action = "signout" -> "/login"

\* C14: every run of login, signup and signout ends in exactly one redirect,
\* whose target is given by the action and by whether the auth call reported
\* an error (signout: always /login), whatever the form data and the kind of
\* error; on the error path of login and signup no revalidatePath call is
\* made and the success target is not redirected to; on the success path
\* revalidatePath("/") and revalidatePath("/", "layout") both come before the
\* redirect; nothing is called before the auth call has settled.
C14_OneRedirectByOutcome ==
    /\ authPc # "done" => authCalls = << >>
    /\ authPc = "done" =>
        LET failed == authAction # "signout" /\ authError # ""
        IN  /\ Len(Redirects) = 1
            /\ authCalls[Len(authCalls)] = Redirect(TargetFor(authAction, failed))
            /\ failed => Len(authCalls) = 1
            /\ ~failed =>
                  authCalls = <<RevalidatePath("/", ""),
                                RevalidatePath("/", "layout"),
                                Redirect(TargetFor(authAction, FALSE))>>

\* a login whose sign-in failed has ended, after an earlier action
C14_Witness ==
    /\ authAction = "login"
    /\ authPc = "done"
    /\ authError = "invalid_credentials"
    /\ authCalls = <<Redirect("/login?error=loginError")>>
    /\ authRuns = 2

====
